---- MODULE Spec2Model ----
(***************************************************************************)
(* Elevator-Emulator.c: the main loop of start_elevator_emulator and the   *)
(* functions it calls, as a state machine.  One action per statement block *)
(* of the loop body, sequenced by pc:                                      *)
(*   door   -> update_door_animation()                     (line 283)      *)
(*   load   -> if (!queue_move && queue_num > 0) {...}     (lines 285-296) *)
(*   arrive -> if (!door_active && queue_move && ...) {...}(lines 298-312) *)
(*   move   -> if (!door_active) { timed move ...          (lines 315-365) *)
(*   input  ->      handle_inputs(); }                     (lines 367-372) *)
(*   ssd    -> SSD toggle and its delay, end of iteration  (lines 374-380) *)
(* The millisecond clock (get_current_time) is sampled every Quantum ms    *)
(* and kept in ClockBits bits; the time one iteration takes is drawn from  *)
(* 0..MaxDelay samples, and play_tone blocks for its duration (rounded up  *)
(* to whole samples).                                                      *)
(* door_start_time is read only under door_active (line 705 returns before *)
(* line 708) and create_door_animation overwrites it before it is read     *)
(* again, so its value is dead while the door is inactive; the model holds *)
(* it at 0 then, to keep the state space finite and small.                 *)
(* History variables, no part of the program: door_age (samples since the  *)
(* door sequence started), move_age (samples since the move timer was last *)
(* restarted), hist (the trips queued so far, in order), log (the pickups  *)
(* and drop-offs so far, in order), polled (what the running iteration's   *)
(* handle_inputs read), offered (what the input source held in an          *)
(* iteration that did not call handle_inputs), speed_read (the speed       *)
(* interval the running iteration got from get_speed, 0 before it asks),   *)
(* tick (the elevator, the trip and the queue as they were when the        *)
(* running iteration began, and in door_kept whether the door sequence was *)
(* still active after that iteration's update_door_animation).             *)
(***************************************************************************)
EXTENDS Integers, Sequences, FiniteSets, TLC

\* ---- program constants -------------------------------------------------
FAST_SPEED == 100
SLOW_SPEED == 300
MAX_TRAVELLERS == 10
MATRIX_WIDTH == 8
FLOOR_0 == 0
FLOOR_1 == 4
FLOOR_2 == 8
FLOOR_3 == 12
NO_INPUT == -1
DoorOpenTime == 400
DoorCloseTime == 800
DoorEndTime == 1200
ArriveToneMs == 100
RequestToneMs == 50
ByteMod == 256

\* ---- bounds of the model -----------------------------------------------
Quantum == 100
ClockBits == 5
MaxDelay == 2
MaxRequests == 2
FifoRequests == 3
FullRequests == 11
DrawFloors == 2

ClockMod == 2 ^ ClockBits
Slots == 0 .. (MAX_TRAVELLERS - 1)
FloorIndex == 0 .. 3
Led == 0 .. 3

VARIABLES
    pc,
    now,
    time_since_move,
    current_position,
    destination,
    traveller_moving,
    floors_with_traveller,
    floors_without_traveller,
    previous_floor,
    door_active,
    door_start_time,
    porta,
    queue_origin,
    queue_destination,
    current_origin,
    current_destination,
    queue_start,
    queue_end,
    queue_num,
    queue_move,
    queue_stage,
    waiting,
    door_age,
    move_age,
    hist,
    log,
    polled,
    offered,
    speed_read,
    tick

clockVars == <<now, time_since_move>>
carVars == <<current_position, destination>>
statVars == <<traveller_moving, floors_with_traveller, floors_without_traveller, previous_floor>>
doorVars == <<door_active, door_start_time, porta>>
queueVars == <<queue_origin, queue_destination, queue_start, queue_end, queue_num>>
tripVars == <<current_origin, current_destination, queue_move, queue_stage>>
ghostVars == <<door_age, move_age, hist, log, polled, offered, speed_read, tick>>
vars == <<pc, clockVars, carVars, statVars, doorVars, queueVars, tripVars, waiting, ghostVars>>

\* ---- the clock ---------------------------------------------------------
\* (variant: the difference taken without wrapping)
ElapsedSigned(t, start) == t - start

\* uint32_t subtraction get_current_time() - start, in clock samples
Elapsed(t, start) == (t - start) % ClockMod

\* the clock after d more samples
After(t, d) == (t + d) % ClockMod

\* (variant: the tone started without waiting for its duration)
ToneNotWaited(duration) == 0

\* play_tone: for (i = 0; i < duration; i++) _delay_ms(1), in clock samples
ToneDelay(duration) == (duration + Quantum - 1) \div Quantum

\* get_speed: PINC bit SPEED_SWITCH low selects the slow speed
get_speed(pin) == IF pin = 0 THEN SLOW_SPEED ELSE FAST_SPEED

\* ---- the queue ---------------------------------------------------------
\* (variant: the most recently queued slot)
LastSlot == (queue_end + MAX_TRAVELLERS - 1) % MAX_TRAVELLERS

\* the slot the loop reads the next trip from
HeadSlot == queue_start

\* draw_queue_traveller: waiting_travellers[] of the queue (qo, qs, qn)
RECURSIVE CountWaiting(_, _, _, _, _)
CountWaiting(qo, qs, qn, i, w) ==
    IF i >= qn THEN w
    ELSE LET queue_slot == (qs + i) % MAX_TRAVELLERS
             queue_floor == qo[queue_slot] \div 4
         IN  CountWaiting(qo, qs, qn, i + 1,
                 IF w[queue_floor] < MATRIX_WIDTH - 4
                 THEN [w EXCEPT ![queue_floor] = @ + 1]
                 ELSE w)

\* (variant: the slots counted from slot 0, not from the queue's head)
draw_from_slot_zero(qo, qs, qn) ==
    CountWaiting(qo, 0, qn, 0, [f \in FloorIndex |-> 0])

draw_queue_traveller(qo, qs, qn) ==
    CountWaiting(qo, qs, qn, 0, [f \in FloorIndex |-> 0])

\* ---- the door ----------------------------------------------------------
\* (variant: the difference taken without wrapping)
DoorElapsedSigned == (now - door_start_time) * Quantum

\* time_since_door_start of update_door_animation, in ms
DoorElapsed == Elapsed(now, door_start_time) * Quantum

LedsClosed(p) == (p \ {0, 3}) \cup {1, 2}
LedsOpen(p) == (p \ {1, 2}) \cup {0, 3}

\* ---- the state an iteration of the loop begins in (line 282) -------------
TickStart ==
    [door_active |-> door_active,
     door_kept |-> door_active,
     queue_move |-> queue_move,
     queue_stage |-> queue_stage,
     destination |-> destination,
     current_origin |-> current_origin,
     current_destination |-> current_destination,
     current_position |-> current_position,
     queue_origin |-> queue_origin,
     queue_destination |-> queue_destination,
     queue_start |-> queue_start,
     queue_end |-> queue_end,
     queue_num |-> queue_num,
     floors_with_traveller |-> floors_with_traveller,
     floors_without_traveller |-> floors_without_traveller]

\* ---- initial state: globals as initialised, then lines 272-280 ----------
Init ==
    /\ pc = "door"
    /\ now \in {0, ClockMod - 4}
    /\ time_since_move = now
    /\ current_position = FLOOR_0
    /\ destination = FLOOR_0
    /\ traveller_moving = FALSE
    /\ floors_with_traveller = 0
    /\ floors_without_traveller = 0
    /\ previous_floor = 0
    /\ door_active = FALSE
    /\ door_start_time = 0
    /\ porta = {}
    /\ queue_origin = [i \in Slots |-> 0]
    /\ queue_destination = [i \in Slots |-> 0]
    /\ current_origin = 0
    /\ current_destination = 0
    /\ queue_start = 0
    /\ queue_end = 0
    /\ queue_num = 0
    /\ queue_move = FALSE
    /\ queue_stage = 0
    /\ waiting = [f \in FloorIndex |-> 0]
    /\ door_age = 0
    /\ move_age = 0
    /\ hist = <<>>
    /\ log = <<>>
    /\ polled = <<>>
    /\ offered = <<>>
    /\ speed_read = 0
    /\ tick = TickStart

\* ---- update_door_animation (line 283, lines 704-725) ---------------------
UpdateDoorAnimation ==
    /\ pc = "door"
    /\ pc' = "load"
    /\ IF ~door_active
       THEN UNCHANGED <<door_active, porta, door_age>>
       ELSE IF DoorElapsed < DoorOpenTime
       THEN UNCHANGED <<door_active, porta, door_age>>
       ELSE IF DoorElapsed < DoorCloseTime
       THEN /\ porta' = LedsOpen(porta)
            /\ UNCHANGED <<door_active, door_age>>
       ELSE IF DoorElapsed < DoorEndTime
       THEN /\ porta' = LedsClosed(porta)
            /\ UNCHANGED <<door_active, door_age>>
       ELSE /\ door_active' = FALSE
            /\ porta' = porta \ {0, 1, 2, 3}
            /\ door_age' = 0
    /\ door_start_time' = IF door_active' THEN door_start_time ELSE 0
    /\ tick' = [tick EXCEPT !.door_kept = door_active']
    /\ UNCHANGED <<clockVars, carVars, statVars, queueVars,
                   tripVars, waiting, move_age, hist, log, polled, offered,
                   speed_read>>

\* ---- lines 285-296: start the next trip ---------------------------------
LoadTrip ==
    /\ pc = "load"
    /\ pc' = "arrive"
    /\ IF ~queue_move /\ queue_num > 0
       THEN /\ current_origin' = queue_origin[HeadSlot]
            /\ current_destination' = queue_destination[HeadSlot]
            /\ destination' = queue_origin[HeadSlot]
            /\ queue_move' = TRUE
            /\ queue_stage' = 0
       ELSE UNCHANGED <<current_origin, current_destination, destination,
                        queue_move, queue_stage>>
    /\ UNCHANGED <<clockVars, current_position, statVars, doorVars, queueVars,
                   waiting, ghostVars>>

\* ---- lines 298-312: arrival, tone, door, pickup or drop-off --------------
\* (variant: arrival tested against the trip's drop-off floor)
ArrivedAtTripEnd ==
    ~door_active /\ queue_move /\ current_position = current_destination

\* (variant: arrival tested on the floor index, not on the position)
ArrivedOnFloorIndex ==
    ~door_active /\ queue_move /\ current_position \div 4 = destination \div 4

\* line 298: the elevator stands at its target with a trip in progress
Arrived == ~door_active /\ queue_move /\ current_position = destination

\* (variant: every arrival takes a trip off the queue)
AtAnyArrival == TRUE

\* line 302: the arrival is the pickup
AtPickup == queue_stage = 0

Arrive ==
    /\ pc = "arrive"
    /\ pc' = "move"
    /\ IF Arrived
       THEN /\ now' = After(now, ToneDelay(ArriveToneMs))
            /\ move_age' = move_age + ToneDelay(ArriveToneMs)
            /\ door_active' = TRUE
            /\ door_start_time' = now'
            /\ porta' = LedsClosed(porta)
            /\ door_age' = 0
            /\ IF AtPickup
               THEN /\ queue_start' = (queue_start + 1) % MAX_TRAVELLERS
                    /\ queue_num' = (queue_num - 1) % ByteMod
                    /\ waiting' = draw_queue_traveller(queue_origin, queue_start', queue_num')
                    /\ destination' = current_destination
                    /\ queue_stage' = 1
                    /\ log' = Append(log, <<"pickup", current_position,
                                            current_origin, current_destination>>)
                    /\ UNCHANGED queue_move
               ELSE /\ queue_move' = FALSE
                    /\ log' = Append(log, <<"dropoff", current_position,
                                            current_origin, current_destination>>)
                    /\ UNCHANGED <<queue_start, queue_num, waiting, destination,
                                   queue_stage>>
       ELSE UNCHANGED <<now, move_age, doorVars, door_age, queue_start, queue_num, waiting,
                        destination, queue_stage, queue_move, log>>
    /\ UNCHANGED <<time_since_move, current_position, statVars, queue_origin,
                   queue_destination, queue_end, current_origin,
                   current_destination, hist, polled, offered, speed_read, tick>>

\* ---- the input source ----------------------------------------------------
\* what the buttons, the serial line and the switches S0, S1 present at a poll
Inputs ==
    { <<NO_INPUT, "", 0, 0>>,     \* nothing pressed
      <<0, "", 0, 1>>,            \* button 0, switches at 2: floor 0 -> floor 2
      <<NO_INPUT, "3", 1, 0>>,    \* key '3', switches at 1: floor 3 -> floor 1
      <<1, "3", 1, 0>> }          \* button 1 before key '3', switches at 1: already there

\* ---- lines 314-365: the timed move and update_floor_num -----------------
\* (variant: movement not held back by the door)
CanMoveAlways == TRUE

\* line 315: the guard of the movement block
CanMove == ~door_active

\* (variant: the move made when the interval is reached, not exceeded)
MoveDueAtInterval(speed) == Elapsed(now, time_since_move) * Quantum >= speed

\* line 317: the move timer has run out
MoveDue(speed) == Elapsed(now, time_since_move) * Quantum > speed

\* (variant: the equal case falls into the upward branch)
StepTowardOrUp(pos, dest) ==
    IF dest - pos >= 0 THEN pos + 1 ELSE pos - 1

\* lines 320-324: one unit toward the destination
StepToward(pos, dest) ==
    IF dest - pos > 0 THEN pos + 1
    ELSE IF dest - pos < 0 THEN pos - 1
    ELSE pos

\* (variant: any trip in progress counts as a traveller aboard)
PassengerAboardWhenBusy == queue_move

\* line 655: which counter a floor crossing goes to
PassengerAboard == traveller_moving

\* (variant: the fine position taken for the floor)
FinePositionOf(pos) == pos

\* line 653: the floor index of a position
FloorOf(pos) == pos \div 4

\* update_floor_num (lines 652-668) for the new position
UpdateFloorNum(pos) ==
    LET current_floor == FloorOf(pos)
    IN  IF current_floor # previous_floor
        THEN /\ IF PassengerAboard
                THEN /\ floors_with_traveller' = (floors_with_traveller + 1) % ByteMod
                     /\ UNCHANGED floors_without_traveller
                ELSE /\ floors_without_traveller' = (floors_without_traveller + 1) % ByteMod
                     /\ UNCHANGED floors_with_traveller
             /\ previous_floor' = current_floor
        ELSE UNCHANGED <<floors_with_traveller, floors_without_traveller, previous_floor>>

Move(pin) ==
    /\ pc = "move"
    /\ IF CanMove
       THEN /\ pc' = "input"
            /\ speed_read' = get_speed(pin)
            /\ UNCHANGED offered
            /\ IF MoveDue(get_speed(pin))
               THEN /\ current_position' = StepToward(current_position, destination)
                    /\ UpdateFloorNum(current_position')
                    /\ time_since_move' = now
                    /\ move_age' = 0
               ELSE UNCHANGED <<current_position, floors_with_traveller,
                                floors_without_traveller, previous_floor,
                                time_since_move, move_age>>
       ELSE /\ pc' = "ssd"
            /\ offered' \in Inputs
            /\ UNCHANGED speed_read
            /\ UNCHANGED <<current_position, floors_with_traveller,
                           floors_without_traveller, previous_floor,
                           time_since_move, move_age>>
    /\ UNCHANGED <<now, destination, traveller_moving, doorVars, queueVars,
                   tripVars, waiting, door_age, hist, log, polled, tick>>

\* ---- handle_inputs (lines 436-514) --------------------------------------
\* lines 470-480: the floor of the pushed button or the typed key
PotentialFloor(btn, serial_input) ==
    IF btn = 0 \/ serial_input = "0" THEN FLOOR_0
    ELSE IF btn = 1 \/ serial_input = "1" THEN FLOOR_1
    ELSE IF btn = 2 \/ serial_input = "2" THEN FLOOR_2
    ELSE IF btn = 3 \/ serial_input = "3" THEN FLOOR_3
    ELSE NO_INPUT

\* switch_destination (lines 595-599)
switch_destination(s0, s1) == s1 * 2 + s0

\* (variant: the floor number compared with the position unit)
SameNumber(potential_floor, destination_floor) ==
    potential_floor = destination_floor

\* line 486: the traveller is already on the destination floor
AlreadyThere(potential_floor, destination_floor) ==
    potential_floor = destination_floor * 4

\* (variant: one slot too many)
QueueHasRoomOffByOne == queue_num <= MAX_TRAVELLERS

\* line 491: the queue has a free slot
QueueHasRoom == queue_num < MAX_TRAVELLERS

\* (variant: the request retargets the elevator, as the single-traveller code did)
TargetIsRequest(potential_floor) == potential_floor

\* lines 490-500: queueing a request leaves the elevator's target alone
TargetAfterRequest(potential_floor) == destination

\* (variant: the switch floor stored without the position unit)
StoredFloorNumber(destination_floor) == destination_floor

\* line 493: the destination is stored as a position, floor * 4
StoredDestination(destination_floor) == destination_floor * 4

HandleInputs(btn, serial_input, s0, s1) ==
    LET potential_floor == PotentialFloor(btn, serial_input)
        destination_floor == switch_destination(s0, s1)
    IN
    /\ pc = "input"
    /\ pc' = "ssd"
    /\ polled' = <<btn, serial_input, s0, s1>>
    /\ IF potential_floor = NO_INPUT
       THEN UNCHANGED <<now, move_age, queueVars, waiting, hist, destination>>
       ELSE IF AlreadyThere(potential_floor, destination_floor)
       THEN UNCHANGED <<now, move_age, queueVars, waiting, hist, destination>>
       ELSE IF QueueHasRoom
       THEN /\ queue_origin' = [queue_origin EXCEPT ![queue_end] = potential_floor]
            /\ queue_destination' = [queue_destination EXCEPT
                                         ![queue_end] = StoredDestination(destination_floor)]
            /\ queue_end' = (queue_end + 1) % MAX_TRAVELLERS
            /\ queue_num' = (queue_num + 1) % ByteMod
            /\ now' = After(now, ToneDelay(RequestToneMs))
            /\ move_age' = move_age + ToneDelay(RequestToneMs)
            /\ waiting' = draw_queue_traveller(queue_origin', queue_start, queue_num')
            /\ destination' = TargetAfterRequest(potential_floor)
            /\ hist' = Append(hist, <<potential_floor, destination_floor * 4>>)
            /\ UNCHANGED queue_start
       ELSE UNCHANGED <<now, move_age, queueVars, waiting, hist, destination>>
    /\ UNCHANGED <<time_since_move, current_position, statVars, doorVars,
                   tripVars, door_age, log, offered, speed_read, tick>>

\* ---- lines 374-380: SSD toggle; the time the iteration took -------------
ToggleSsd(d) ==
    /\ pc = "ssd"
    /\ pc' = "door"
    /\ now' = After(now, d)
    /\ door_age' = IF door_active THEN door_age + d ELSE 0
    /\ move_age' = move_age + d
    /\ polled' = <<>>
    /\ offered' = <<>>
    /\ speed_read' = 0
    /\ tick' = TickStart
    /\ UNCHANGED <<time_since_move, carVars, statVars, doorVars, queueVars,
                   tripVars, waiting, hist, log>>

\* ---- the inputs ----------------------------------------------------------
Pin == {0, 1}

\* the request the poll presents would be queued
Queued(in) ==
    /\ PotentialFloor(in[1], in[2]) # NO_INPUT
    /\ ~AlreadyThere(PotentialFloor(in[1], in[2]), switch_destination(in[3], in[4]))
    /\ QueueHasRoom

Poll(inputs, limit) ==
    \E in \in inputs :
        /\ Queued(in) => Len(hist) < limit
        /\ HandleInputs(in[1], in[2], in[3], in[4])

Next ==
    \/ UpdateDoorAnimation
    \/ LoadTrip
    \/ Arrive
    \/ \E pin \in Pin : Move(pin)
    \/ Poll(Inputs, MaxRequests)
    \/ \E d \in 0 .. MaxDelay : ToggleSsd(d)

Spec == Init /\ [][Next]_vars

\* ---- a traveller on floor 3 who keeps asking for floor 1 -----------------
FullInputs ==
    { <<NO_INPUT, "", 0, 0>>,     \* nothing pressed
      <<NO_INPUT, "3", 1, 0>> }   \* key '3', switches at 1: floor 3 -> floor 1

NextFull ==
    \/ UpdateDoorAnimation
    \/ LoadTrip
    \/ Arrive
    \/ \E pin \in Pin : Move(pin)
    \/ Poll(FullInputs, FullRequests)
    \/ \E d \in 0 .. MaxDelay : ToggleSsd(d)

SpecFull == Init /\ [][NextFull]_vars

\* ---- three requests at the fast speed, for the order of service -----------
FifoInputs ==
    { <<NO_INPUT, "", 0, 0>>,     \* nothing pressed
      <<0, "", 0, 1>>,            \* button 0, switches at 2: floor 0 -> floor 2
      <<NO_INPUT, "3", 1, 0>> }   \* key '3', switches at 1: floor 3 -> floor 1

NextFifo ==
    \/ UpdateDoorAnimation
    \/ LoadTrip
    \/ Arrive
    \/ Move(1)
    \/ Poll(FifoInputs, FifoRequests)
    \/ \E d \in 0 .. MaxDelay : ToggleSsd(d)

SpecFifo == Init /\ [][NextFifo]_vars

\* ---- draw_queue_traveller on any queue of travellers waiting on the top ----
\* ---- DrawFloors floors for floor 0, the head anywhere in the buffer ---------
DrawOrigins == { 4 * f : f \in { g \in FloorIndex : g >= 4 - DrawFloors } }

InitDraw ==
    /\ pc = "door"
    /\ now = 0
    /\ time_since_move = 0
    /\ current_position = FLOOR_0
    /\ destination = FLOOR_0
    /\ traveller_moving = FALSE
    /\ floors_with_traveller = 0
    /\ floors_without_traveller = 0
    /\ previous_floor = 0
    /\ door_active = FALSE
    /\ door_start_time = 0
    /\ porta = {}
    /\ queue_origin \in [Slots -> DrawOrigins]
    /\ queue_destination = [i \in Slots |-> FLOOR_0]
    /\ current_origin = 0
    /\ current_destination = 0
    /\ queue_start \in {0, MAX_TRAVELLERS - 3}
    /\ queue_num \in 0 .. MAX_TRAVELLERS
    /\ queue_end = (queue_start + queue_num) % MAX_TRAVELLERS
    /\ queue_move = FALSE
    /\ queue_stage = 0
    /\ waiting = [f \in FloorIndex |-> 0]
    /\ door_age = 0
    /\ move_age = 0
    /\ hist = <<>>
    /\ log = <<>>
    /\ polled = <<>>
    /\ offered = <<>>
    /\ speed_read = 0
    /\ tick = TickStart

\* a call of draw_queue_traveller (lines 728-766)
Redraw ==
    /\ pc = "door"
    /\ pc' = "drawn"
    /\ waiting' = draw_queue_traveller(queue_origin, queue_start, queue_num)
    /\ UNCHANGED <<clockVars, carVars, statVars, doorVars, queueVars, tripVars,
                   ghostVars>>

NextDraw == Redraw

SpecDraw == InitDraw /\ [][NextDraw]_vars

\* ---- a long run: the elevator idle on floor 0 after 254 floors crossed ------
\* ---- empty (254 trips, floor 0 -> floor 1 and floor 1 -> floor 0 in turn) --
InitWrap ==
    /\ pc = "door"
    /\ now \in {0, ClockMod - 4}
    /\ time_since_move = now
    /\ current_position = FLOOR_0
    /\ destination = FLOOR_0
    /\ traveller_moving = FALSE
    /\ floors_with_traveller = 0
    /\ floors_without_traveller = ByteMod - 2
    /\ previous_floor = 0
    /\ door_active = FALSE
    /\ door_start_time = 0
    /\ porta = {}
    /\ queue_origin = [i \in Slots |-> 0]
    /\ queue_destination = [i \in Slots |-> 0]
    /\ current_origin = 0
    /\ current_destination = 0
    /\ queue_start = 0
    /\ queue_end = 0
    /\ queue_num = 0
    /\ queue_move = FALSE
    /\ queue_stage = 0
    /\ waiting = [f \in FloorIndex |-> 0]
    /\ door_age = 0
    /\ move_age = 0
    /\ hist = <<>>
    /\ log = <<>>
    /\ polled = <<>>
    /\ offered = <<>>
    /\ speed_read = 0
    /\ tick = TickStart

SpecWrap == InitWrap /\ [][Next]_vars

\* ---- the loop keeps running and the clock keeps advancing ----------------
\* the timer interrupt goes on counting: iterations that take time recur
ClockAdvances == \E d \in 1 .. MaxDelay : ToggleSsd(d)

FairSpec == Spec /\ WF_vars(Next) /\ SF_vars(ClockAdvances)

\* ======================= properties ========================================
\* the stages of the elevator
Idle == ~queue_move
MovingToOrigin == queue_move /\ queue_stage = 0
MovingToDestination == queue_move /\ queue_stage = 1

Abs(x) == IF x < 0 THEN -x ELSE x

\* the pickup and the drop-off of each trip of trips, trip by trip
ServiceOf(trips) ==
    [k \in 1 .. 2 * Len(trips) |->
        LET t == trips[(k + 1) \div 2]
        IN  IF k % 2 = 1 THEN <<"pickup", t[1], t[1], t[2]>>
                         ELSE <<"dropoff", t[2], t[1], t[2]>>]

\* the floor position a poll asks a pickup from, and the one it asks to go to
PickupOf(in) == PotentialFloor(in[1], in[2])
DropoffOf(in) == 4 * switch_destination(in[3], in[4])
IsRequest(in) == in # <<>> /\ PickupOf(in) # NO_INPUT

\* C1: trips are served strictly in the order they were queued: the k-th
\* pickup is the k-th queued trip's, at its origin, followed by its drop-off at
\* its destination, before any later trip's pickup, whichever origin is nearer.
C1_ServedInArrivalOrder ==
    /\ Len(log) <= 2 * Len(hist)
    /\ \A k \in 1 .. Len(log) : log[k] = ServiceOf(hist)[k]

\* C1 witness: the first trip has just been dropped off and the second queued
\* trip is started while the third, whose origin is nearer, waits behind it.
C1_Witness ==
    /\ Len(hist) = 3 /\ Len(log) = 2 /\ door_active
    /\ MovingToOrigin /\ queue_num = 2
    /\ destination = hist[2][1]
    /\ Abs(hist[3][1] - current_position) < Abs(hist[2][1] - current_position)

\* the k-th queued trip has just been finished: picked up at its origin, dropped
\* off at its destination, the elevator idle again, the queue's head k slots on
\* and the queue holding only the trips queued after it
TripDone(k) ==
    /\ Len(hist) >= k /\ Len(log) = 2 * k
    /\ log[2 * k - 1] = <<"pickup", hist[k][1], hist[k][1], hist[k][2]>>
    /\ log[2 * k] = <<"dropoff", hist[k][2], hist[k][1], hist[k][2]>>
    /\ Idle
    /\ queue_start = k % MAX_TRAVELLERS
    /\ queue_num = Len(hist) - k

\* C2: every queued trip is eventually finished (TripDone), and the stages only
\* follow one another as IDLE -> MOVING_TO_ORIGIN -> MOVING_TO_DESTINATION ->
\* IDLE, the door sequence starting at the pickup and at the drop-off.
C2_TripRunsToCompletion ==
    /\ \A k \in 1 .. MaxRequests :
          (Len(hist) >= k /\ Len(log) < 2 * k) ~> TripDone(k)
    /\ [][/\ (Idle /\ ~Idle') => MovingToOrigin'
          /\ (MovingToOrigin /\ ~MovingToOrigin') =>
                (MovingToDestination' /\ door_active' /\ current_position = current_origin)
          /\ (MovingToDestination /\ ~MovingToDestination') =>
                (Idle' /\ door_active' /\ current_position = current_destination)
         ]_vars

\* C2 witness: the trip floor 3 -> floor 1, the only one queued, is finished
\* and its drop-off door sequence has ended.
C2_Witness ==
    /\ hist = << <<FLOOR_3, FLOOR_1>> >> /\ TripDone(1)
    /\ ~door_active /\ current_position = FLOOR_1

\* C3: queueing a request while a trip is in flight changes only the queue's
\* tail and count: target, stage, active trip, position, head and the trips
\* already queued stay as they were.
C3_RequestLeavesTripAlone ==
    [][(pc = "input" /\ ~Idle /\ hist' # hist) =>
          /\ UNCHANGED <<destination, queue_move, queue_stage, current_origin,
                         current_destination, current_position, queue_start>>
          /\ queue_num' = queue_num + 1
          /\ queue_end' = (queue_end + 1) % MAX_TRAVELLERS
          /\ \A i \in 0 .. queue_num - 1 :
                LET slot == (queue_start + i) % MAX_TRAVELLERS
                IN  /\ queue_origin'[slot] = queue_origin[slot]
                    /\ queue_destination'[slot] = queue_destination[slot]
      ]_vars

\* C3 witness: the first trip has its traveller aboard and handle_inputs has
\* just queued the second request behind it.
C3_Witness ==
    /\ MovingToDestination /\ Len(log) = 1 /\ queue_num = 1 /\ Len(hist) = 2
    /\ pc = "ssd" /\ IsRequest(polled) /\ PickupOf(polled) # DropoffOf(polled)
    /\ current_position # current_origin /\ current_position # destination

\* C4: a floor crossing made in the MOVING_TO_DESTINATION stage adds one to the
\* with-passenger counter and leaves the without-passenger counter alone.
C4_CrossingAboardCountsWith ==
    [][(pc = "move" /\ MovingToDestination
        /\ current_position' \div 4 # current_position \div 4) =>
          /\ floors_with_traveller' = (floors_with_traveller + 1) % ByteMod
          /\ floors_without_traveller' = floors_without_traveller
      ]_vars

\* C5: a floor crossing made while idle or in the MOVING_TO_ORIGIN stage adds
\* one to the without-passenger counter and leaves the with-passenger counter
\* alone.
C5_CrossingEmptyCountsWithout ==
    [][(pc = "move" /\ (Idle \/ MovingToOrigin)
        /\ current_position' \div 4 # current_position \div 4) =>
          /\ floors_without_traveller' = (floors_without_traveller + 1) % ByteMod
          /\ floors_with_traveller' = floors_with_traveller
      ]_vars

\* C5 witness: on the way to a pickup on floor 3 the elevator has just crossed
\* from floor 0 to floor 1.
C5_Witness ==
    /\ pc = "input" /\ MovingToOrigin
    /\ current_position = FLOOR_1 /\ destination = FLOOR_3
    /\ previous_floor = 1
    /\ floors_without_traveller = 1 /\ floors_with_traveller = 0

\* C6: no step that starts or ends with the door sequence active changes the
\* elevator's position.
C6_DoorHoldsPosition ==
    [][(door_active \/ door_active') => current_position' = current_position]_vars

\* C6 witness: the door sequence is in its closing phase, the elevator is not
\* at its target and the move timer ran out long ago.
C6_Witness ==
    /\ door_active /\ pc = "move"
    /\ door_age * Quantum >= DoorCloseTime
    /\ current_position # destination
    /\ MoveDue(SLOW_SPEED)

\* C7: the door update at e ms after the start of the sequence shows OPENING
\* for e < 400, OPEN for 400 <= e < 800, CLOSING for 800 <= e < 1200, and ends
\* the sequence at the first update with e >= 1200.
C7_DoorPhases ==
    [][(pc = "door" /\ door_active) =>
          LET e == door_age * Quantum
          IN  /\ e < DoorOpenTime => door_active' /\ porta' = {1, 2}
              /\ (DoorOpenTime <= e /\ e < DoorCloseTime) =>
                    door_active' /\ porta' = {0, 3}
              /\ (DoorCloseTime <= e /\ e < DoorEndTime) =>
                    door_active' /\ porta' = {1, 2}
              /\ e >= DoorEndTime => ~door_active' /\ porta' = {}
      ]_vars

\* C7 witness: the pickup's door sequence has run through all its phases and
\* ended, the elevator still standing at the pickup floor.
C7_Witness ==
    /\ pc = "load" /\ ~door_active /\ porta = {}
    /\ MovingToDestination /\ Len(log) = 1
    /\ current_position = current_origin

\* C8: a request whose pickup floor is the floor it asks to go to changes
\* nothing: not the queue, the elevator, the door, the counters or the clock.
C8_SameFloorDiscarded ==
    [][(pc = "input" /\ IsRequest(polled') /\ PickupOf(polled') = DropoffOf(polled')) =>
          UNCHANGED <<clockVars, carVars, statVars, doorVars, queueVars,
                      tripVars, waiting, hist>>
      ]_vars

\* C8 witness: handle_inputs has just read such a request, with a trip waiting.
C8_Witness ==
    /\ pc = "ssd" /\ IsRequest(polled) /\ PickupOf(polled) = DropoffOf(polled)
    /\ queue_num > 0

\* C9: a request polled while the queue holds MAX_TRAVELLERS trips leaves the
\* count, the head, the tail and the stored trips as they were, and the count
\* never exceeds MAX_TRAVELLERS.
C9_FullQueueDrops ==
    [][/\ queue_num' <= MAX_TRAVELLERS
       /\ (pc = "input" /\ queue_num = MAX_TRAVELLERS /\ IsRequest(polled')) =>
             UNCHANGED queueVars
      ]_vars

\* C9 witness: handle_inputs has just read a request for another floor with
\* MAX_TRAVELLERS trips in the queue.
C9_Witness ==
    /\ pc = "ssd" /\ queue_num = MAX_TRAVELLERS
    /\ IsRequest(polled) /\ PickupOf(polled) # DropoffOf(polled)

\* C10: as long as no request has been queued the elevator stays on floor 0,
\* idle and with floor 0 as its target.
C10_IdleStaysPut ==
    hist = <<>> => (current_position = FLOOR_0 /\ destination = FLOOR_0 /\ Idle)

\* C10 witness: no request queued yet, the clock 16 samples on, and the move
\* timer has just run out and been restarted.
C10_Witness ==
    /\ hist = <<>> /\ pc = "input"
    /\ now = 16 /\ time_since_move = now

\* the running iteration began idle with a trip waiting: it starts that trip
TickStartsTrip == ~tick.queue_move /\ tick.queue_num > 0

\* the running iteration has taken the head trip off the queue
TickRemovedHead == queue_start # tick.queue_start

TickQueue ==
    <<tick.queue_origin, tick.queue_destination, tick.queue_start,
      tick.queue_end, tick.queue_num>>

\* stage, target and active trip as they were when the running iteration began
TickTrip ==
    <<tick.queue_move, tick.queue_stage, tick.destination,
      tick.current_origin, tick.current_destination>>

\* C12 as stated: an iteration that began with the door sequence active ends
\* with stage, target, active trip, position and queue as they were.
C12_DoorTickChangesNothing ==
    (pc = "ssd" /\ tick.door_active) =>
        /\ <<queue_move, queue_stage, destination,
              current_origin, current_destination>> = TickTrip
        /\ current_position = tick.current_position
        /\ queueVars = TickQueue

\* C12 amended: an iteration that began with the door sequence active, and in
\* which the sequence did not end, leaves the position and the queue as they
\* were and the door active; stage, target and active trip are as they were
\* too, unless the elevator was idle with a trip waiting: then that trip has
\* been started (MOVING_TO_ORIGIN, target = its origin), still in the queue.
C12_DoorTickHoldsCarAndQueue ==
    (pc = "ssd" /\ tick.door_active /\ tick.door_kept) =>
        /\ door_active
        /\ current_position = tick.current_position
        /\ queueVars = TickQueue
        /\ IF ~tick.queue_move /\ tick.queue_num > 0
           THEN /\ MovingToOrigin
                /\ destination = queue_origin[queue_start]
                /\ current_origin = queue_origin[queue_start]
                /\ current_destination = queue_destination[queue_start]
           ELSE <<queue_move, queue_stage, destination,
                  current_origin, current_destination>> = TickTrip

\* C12 witness: during the door sequence of a drop-off an iteration has
\* started the next trip, the elevator standing away from that trip's origin
\* with its move timer run out.
C12_Witness ==
    /\ pc = "ssd" /\ tick.door_active /\ tick.door_kept
    /\ ~tick.queue_move /\ MovingToOrigin
    /\ current_position # destination /\ MoveDue(SLOW_SPEED)

\* what the input source presents in the running iteration
Presented == IF polled # <<>> THEN polled ELSE offered

\* a request for another floor than the one it comes from
ValidRequest(in) == IsRequest(in) /\ PickupOf(in) # DropoffOf(in)

\* C13 as stated: an iteration in which the input source presents a valid
\* request, the queue not full, ends with that request at the queue's tail,
\* also when the door sequence is active.
C13_PresentedIsQueued ==
    (pc = "ssd" /\ ValidRequest(Presented) /\ tick.queue_num < MAX_TRAVELLERS) =>
        /\ queue_end = (tick.queue_end + 1) % MAX_TRAVELLERS
        /\ queue_origin[tick.queue_end] = PickupOf(Presented)
        /\ queue_destination[tick.queue_end] = DropoffOf(Presented)

\* C13 amended: a valid request that handle_inputs reads with the queue not
\* full is stored at the queue's tail in that step, whatever the stage; the
\* input is read only with the door sequence inactive, and an iteration whose
\* door sequence is active at the movement block reads no input and leaves
\* the queue alone.
C13_ReadIsQueued ==
    [][/\ (pc = "input" /\ ValidRequest(polled') /\ queue_num < MAX_TRAVELLERS) =>
             /\ queue_origin' = [queue_origin EXCEPT ![queue_end] = PickupOf(polled')]
             /\ queue_destination' =
                    [queue_destination EXCEPT ![queue_end] = DropoffOf(polled')]
             /\ queue_end' = (queue_end + 1) % MAX_TRAVELLERS
             /\ queue_num' = queue_num + 1
             /\ queue_start' = queue_start
       /\ pc' = "input" => ~door_active'
       /\ (pc = "move" /\ door_active) =>
             /\ pc' = "ssd" /\ polled' = <<>>
             /\ UNCHANGED queueVars
      ]_vars

\* C13 witness: with the pickup's door sequence active and a free slot in the
\* queue, the input source held a valid request that the iteration has not
\* read.
C13_Witness ==
    /\ pc = "ssd" /\ door_active /\ MovingToDestination
    /\ ValidRequest(offered) /\ polled = <<>>
    /\ queue_num < MAX_TRAVELLERS /\ queueVars = TickQueue

\* where the elevator last stopped for a pickup or a drop-off
LastStop == IF log = <<>> THEN FLOOR_0 ELSE log[Len(log)][2]

\* the floors between the stops of the first k legs, leg by leg: from floor 0
\* to the first pickup, from there to its drop-off, on to the next pickup, ...
RECURSIVE FloorsOfLegs(_)
FloorsOfLegs(k) ==
    IF k = 0 THEN 0
    ELSE FloorsOfLegs(k - 1)
         + Abs(log[k][2] - (IF k = 1 THEN FLOOR_0 ELSE log[k - 1][2])) \div 4

\* C14: the two counters together count every floor boundary crossed once:
\* after each leg from floor a to floor b their sum has grown by |b - a|, up or
\* down, and within a leg it has grown by the floor indices passed so far; an
\* iteration of the loop that leaves the floor index as it was, the position
\* changed or not, leaves both counters alone, and one that changes the floor
\* index adds one to their sum.
C14_OncePerFloorCrossed ==
    /\ floors_with_traveller + floors_without_traveller =
          FloorsOfLegs(Len(log))
          + Abs(current_position \div 4 - LastStop \div 4)
    /\ IF current_position \div 4 = tick.current_position \div 4
       THEN /\ floors_with_traveller = tick.floors_with_traveller
            /\ floors_without_traveller = tick.floors_without_traveller
       ELSE floors_with_traveller + floors_without_traveller =
               tick.floors_with_traveller + tick.floors_without_traveller + 1

\* C14 witness: picked up on floor 3, three floors up from floor 0, the trip to
\* floor 1 has crossed two floors on its way down, and the iteration that
\* reached floor 1 changed the position within that floor.
C14_Witness ==
    /\ Len(log) = 1 /\ log[1][2] = FLOOR_3 /\ destination = FLOOR_1
    /\ floors_with_traveller + floors_without_traveller = 5
    /\ pc = "ssd"
    /\ tick.current_position = FLOOR_1 + 1 /\ current_position = FLOOR_1

\* the trips in the queue, head to tail, whose origin is on floor f
InQueueFrom(qo, qs, qn, f) ==
    Cardinality({ i \in 0 .. qn - 1 : qo[(qs + i) % MAX_TRAVELLERS] \div 4 = f })

Min(a, b) == IF a < b THEN a ELSE b

\* C15: after every step the waiting count of each floor f is the number of
\* trips in the queue whose origin is f, or 4 (the display's columns 4..7) when
\* there are more.
C15_WaitingCountsQueue ==
    [][\A f \in FloorIndex :
          waiting'[f] = Min(InQueueFrom(queue_origin', queue_start', queue_num', f),
                            MATRIX_WIDTH - 4)
      ]_vars

\* C15 witness: of eight trips stored across the buffer's wrap, six wait on
\* floor 3 and two on floor 2: the display counts four and two.
C15_Witness ==
    /\ pc = "drawn" /\ queue_start = MAX_TRAVELLERS - 3 /\ queue_num = 8
    /\ InQueueFrom(queue_origin, queue_start, queue_num, 3) = 6
    /\ waiting = [f \in FloorIndex |-> IF f = 3 THEN 4 ELSE IF f = 2 THEN 2 ELSE 0]

\* C16 as stated: no step makes either counter smaller, also past 255 floors
\* crossed.
C16_CountersNeverDecrease ==
    [][/\ floors_with_traveller' >= floors_with_traveller
       /\ floors_without_traveller' >= floors_without_traveller
      ]_vars

\* C17: the elapsed time the program computes for the move timer and for the
\* door sequence is the time that has really passed since the timer was
\* restarted and since the sequence started, also when the clock has wrapped
\* in between; so the move decision and the door phase are those of the true
\* elapsed time.
C17_ElapsedAcrossWrap ==
    /\ Elapsed(now, time_since_move) = move_age
    /\ \A pin \in Pin :
          MoveDue(get_speed(pin)) <=> move_age * Quantum > get_speed(pin)
    /\ door_active =>
          /\ Elapsed(now, door_start_time) = door_age
          /\ DoorElapsed = door_age * Quantum

\* C17 witness: the clock has wrapped since the door sequence started and
\* since the move timer was restarted; the sequence, four samples old or
\* more, shows the open door.
C17_Witness ==
    /\ door_active /\ now < door_start_time /\ now < time_since_move
    /\ door_age * Quantum >= DoorOpenTime /\ porta = {0, 3}
    /\ MoveDue(SLOW_SPEED)

\* the positions of the four floors
FloorPositions == {FLOOR_0, FLOOR_1, FLOOR_2, FLOOR_3}

\* C18: while the door sequence is active the elevator stands exactly on a
\* floor, the floor of the pickup or drop-off that started the sequence: the
\* origin of the trip picked up, the destination of the trip dropped off.
C18_DoorOnlyAtFloor ==
    door_active =>
        /\ current_position \in FloorPositions
        /\ current_position % 4 = 0
        /\ log # <<>>
        /\ LET stop == log[Len(log)]
           IN  /\ current_position = stop[2]
               /\ stop[1] = "pickup" => current_position = stop[3]
               /\ stop[1] = "dropoff" => current_position = stop[4]

\* C18 witness: the door sequence of a drop-off on floor 1, reached from
\* above, is running while the next trip, from another floor, is already the
\* elevator's target.
C18_Witness ==
    /\ door_active /\ current_position = FLOOR_1
    /\ log # <<>> /\ log[Len(log)][1] = "dropoff"
    /\ MovingToOrigin /\ destination # current_position

\* the slots of the trips in the queue, head to tail
QueuedSlots == { (queue_start + i) % MAX_TRAVELLERS : i \in 0 .. queue_num - 1 }

\* C19: every trip in the queue goes from one of the four floors to another of
\* the four floors.
C19_QueuedTripsValid ==
    \A slot \in QueuedSlots :
        /\ queue_origin[slot] \in FloorPositions
        /\ queue_destination[slot] \in FloorPositions
        /\ queue_origin[slot] # queue_destination[slot]

\* C19 witness: two trips are in the queue and handle_inputs has just read, and
\* not queued, a request from floor 1 to floor 1.
C19_Witness ==
    /\ queue_num = 2 /\ Cardinality(QueuedSlots) = 2
    /\ pc = "ssd" /\ IsRequest(polled) /\ PickupOf(polled) = DropoffOf(polled)
    /\ queueVars = TickQueue

\* C20: the position changes only in the movement block, with the door
\* sequence inactive and the time since the last move strictly above the speed
\* interval read in that iteration; it then changes by one unit, toward the
\* target and never past it. An iteration changes the position by one unit at
\* most, and the position stays within floor 0 .. floor 3.
C20_OneUnitTowardTarget ==
    [][/\ current_position' \in FLOOR_0 .. FLOOR_3
       /\ pc' # "door" => Abs(current_position' - tick'.current_position) <= 1
       /\ current_position' # current_position =>
             /\ pc = "move" /\ ~door_active
             /\ speed_read' \in {FAST_SPEED, SLOW_SPEED}
             /\ Elapsed(now, time_since_move) * Quantum > speed_read'
             /\ Abs(current_position' - current_position) = 1
             /\ Abs(destination - current_position') =
                   Abs(destination - current_position) - 1
      ]_vars

\* C20 witness: at the slow speed the elevator has just moved one unit down,
\* toward a target below it.
C20_Witness ==
    /\ pc = "input" /\ speed_read = SLOW_SPEED
    /\ current_position = tick.current_position - 1
    /\ destination < current_position
    /\ time_since_move = now

\* the trips taken off the queue so far
TripsPickedUp == Len(hist) - queue_num

\* C21: a door sequence starts only at an arrival, after the arrival tone has
\* sounded for its 100 ms: at the trip's origin in the MOVING_TO_ORIGIN stage,
\* the trip's destination becoming the target, or at the trip's destination
\* in the MOVING_TO_DESTINATION stage, the elevator becoming idle; every
\* arrival starts one. So each trip has had two door sequences when it is
\* finished and one while the traveller is aboard. A trip whose origin is the
\* floor the elevator stands on is picked up without any change of position.
C21_TwoDoorsPerTrip ==
    [][/\ (door_active' /\ ~door_active) =>
             /\ pc = "arrive" /\ Len(log') = Len(log) + 1
             /\ Elapsed(now', now) * Quantum >= ArriveToneMs
             /\ door_start_time' = now' /\ porta' = {1, 2}
             /\ \/ /\ MovingToOrigin /\ current_position = current_origin
                   /\ MovingToDestination' /\ destination' = current_destination
                \/ /\ MovingToDestination /\ current_position = current_destination
                   /\ Idle'
       /\ (pc = "arrive" /\ queue_move /\ ~door_active
                         /\ current_position = destination) =>
             door_active'
       /\ Len(log') # Len(log) => (door_active' /\ ~door_active)
       /\ Len(log') = IF MovingToDestination' THEN 2 * TripsPickedUp' - 1
                                              ELSE 2 * TripsPickedUp'
       /\ (MovingToOrigin /\ current_position = current_origin) =>
             current_position' = current_position
      ]_vars

\* C21 witness: the trip floor 0 -> floor 2, started with the elevator on
\* floor 0, has had its pickup door on floor 0 and is having its drop-off door
\* on floor 2; the elevator is idle.
C21_Witness ==
    /\ hist = << <<FLOOR_0, FLOOR_2>> >> /\ Len(log) = 2
    /\ log[1] = <<"pickup", FLOOR_0, FLOOR_0, FLOOR_2>>
    /\ log[2] = <<"dropoff", FLOOR_2, FLOOR_0, FLOOR_2>>
    /\ door_active /\ door_age = 0 /\ Idle /\ current_position = FLOOR_2

\* C22: an idle elevator stands on its target floor; the target is reassigned
\* only in a state where the position equals the target being replaced, so it
\* never changes while the elevator is between floors.
C22_TargetSetOnlyAtTarget ==
    /\ (Idle => current_position = destination)
    /\ [][/\ Idle' => current_position' = destination'
          /\ destination' # destination =>
                /\ current_position = destination
                /\ current_position \in FloorPositions
                /\ current_position' = current_position
          /\ current_position \notin FloorPositions =>
                destination' = destination
         ]_vars

\* C22 witness: the elevator has just picked up on floor 3, its previous
\* target, and its target is now floor 1; a request was queued on the way up.
C22_Witness ==
    /\ pc = "move" /\ MovingToDestination /\ door_active /\ door_age = 0
    /\ tick.destination = FLOOR_3 /\ current_position = FLOOR_3
    /\ destination = FLOOR_1 /\ Len(hist) = 2

\* C23: the circular buffer stays consistent: queue_num is in 0..10,
\* queue_start and queue_end are in 0..9, queue_end is queue_start plus
\* queue_num modulo 10, and the head is removed only from a queue that holds
\* a trip, the count going down by one without wrapping below zero.
C23_BufferConsistent ==
    /\ queue_num \in 0..MAX_TRAVELLERS
    /\ queue_start \in Slots /\ queue_end \in Slots
    /\ queue_end = (queue_start + queue_num) % MAX_TRAVELLERS
    /\ [][/\ queue_num' \in 0..MAX_TRAVELLERS
          /\ queue_start' \in 0..(MAX_TRAVELLERS - 1)
          /\ queue_end' \in 0..(MAX_TRAVELLERS - 1)
          /\ queue_end' = (queue_start' + queue_num') % MAX_TRAVELLERS
          /\ queue_start' # queue_start =>
                /\ queue_num > 0 /\ queue_num' = queue_num - 1
                /\ queue_start' = (queue_start + 1) % MAX_TRAVELLERS
                /\ queue_end' = queue_end
          /\ queue_end' # queue_end =>
                /\ queue_num < MAX_TRAVELLERS /\ queue_num' = queue_num + 1
                /\ queue_end' = (queue_end + 1) % MAX_TRAVELLERS
                /\ queue_start' = queue_start
          /\ queue_num' # queue_num =>
                (queue_start' # queue_start \/ queue_end' # queue_end)
         ]_vars

\* C23 witness: ten requests filled the queue, a pickup removed the head and
\* an eleventh request was accepted into slot 0: the queue is full again with
\* both indices wrapped to 1.
C23_Witness ==
    /\ queue_num = MAX_TRAVELLERS /\ queue_start = 1 /\ queue_end = 1
    /\ Len(hist) = MAX_TRAVELLERS + 1 /\ Len(log) >= 1

====
